---- MODULE Spec2Model ----
(***************************************************************************)
(* Model of the media catalog page script (static/script.js): the display  *)
(* region `browser`, the two view toggles, the three network operations    *)
(* and the listeners that connect them.  One action is one run-to-         *)
(* completion segment of a listener: the synchronous part of a handler up  *)
(* to its next `await`, or its continuation once the awaited promise has   *)
(* settled.                                                                *)
(***************************************************************************)
EXTENDS Integers, Sequences, FiniteSets

(***************************************************************************)
(* Bounds of the model.                                                    *)
(***************************************************************************)
MaxRequests == 2       \* network requests issued during one page life
MaxEntries == 2        \* records in one response

(***************************************************************************)
(* JavaScript values.  `undefined` is a value of its own; a template       *)
(* literal interpolates it as the text "undefined"; an `if` treats it and  *)
(* the empty string as false.                                              *)
(***************************************************************************)
Undefined == "<undefined>"

\* the value of a handler's `result` variable: never assigned, or the parsed array
JsUndefined == [js |-> "undefined"]

JsArray(items) == [js |-> "array", items |-> items]

TemplateText(v) == IF v = Undefined THEN "undefined" ELSE v

Truthy(v) == v # Undefined /\ v # ""

(***************************************************************************)
(* Constants of the script.                                                *)
(***************************************************************************)
FileIcon == "./static/resources/file_icon_500_500.svg"

fileTypeThumbnailMap ==
    [movie |-> FileIcon, show |-> FileIcon, music |-> FileIcon, book |-> FileIcon]

\* fileTypeThumbnailMap[type]: a property read, undefined for a missing key
ThumbnailFor(type) ==
    IF type \in DOMAIN fileTypeThumbnailMap THEN fileTypeThumbnailMap[type]
    ELSE Undefined

\* the values the persisted schema allows in the type column
SchemaTypes == {"movie", "show", "video"}

(***************************************************************************)
(* Records the backend may return, and the responses built from them.      *)
(***************************************************************************)
Wire == [title |-> "The Wire", type |-> "show", description |-> "Baltimore",
         thumbnail |-> "./static/thumbs/wire.png"]

Clip == [title |-> "Clip", type |-> "video", description |-> "home video",
         thumbnail |-> Undefined]

MediaPool == {Wire, Clip}

ResultSets == UNION {[1..n -> MediaPool] : n \in 0..MaxEntries}

(***************************************************************************)
(* The display region: the sequence of child nodes of `browser`.           *)
(***************************************************************************)
\* the tokens the HTML tokenizer produces for the string assigned at the
\* empty branch of renderMediaEntries: a start tag, character data, and an
\* end tag "</span?" that is still unterminated when the input ends
NoResultsHTML ==
    << [token |-> "start", tag |-> "span", class |-> "message"],
       [token |-> "chars", data |-> "No results found"],
       [token |-> "eof-in-tag", tag |-> "span?"] >>

RECURSIVE BuildFragment(_, _, _)
\* tree construction for a setter of innerHTML, one level deep: `open` is
\* the stack of elements under construction, `done` the finished nodes
BuildFragment(tokens, open, done) ==
    IF tokens = <<>>
    THEN done \o open           \* the end of input closes what is still open
    ELSE LET t == Head(tokens) IN
         CASE t.token = "start" ->
                BuildFragment(Tail(tokens),
                              <<[tag |-> t.tag, class |-> t.class, text |-> ""]>>,
                              done \o open)
           [] t.token = "chars" ->
                IF open = <<>>
                THEN BuildFragment(Tail(tokens), open,
                                   Append(done, [tag |-> "#text", class |-> "", text |-> t.data]))
                ELSE BuildFragment(Tail(tokens),
                                   <<[open[1] EXCEPT !.text = t.data]>>, done)
           [] t.token = "end" ->
                IF open # <<>> /\ open[1].tag = t.tag
                THEN BuildFragment(Tail(tokens), <<>>, done \o open)
                ELSE BuildFragment(Tail(tokens), open, done)
           [] OTHER ->      \* a tag cut off by the end of input is dropped
                BuildFragment(Tail(tokens), open, done)

\* variant: the cut-off end tag is kept and shown as text
SetInnerHTML_BrokenTagAsText(tokens) ==
    BuildFragment(tokens, <<>>, <<>>) \o
        SelectSeq([i \in 1..Len(tokens) |->
                      [tag |-> "#text", class |-> tokens[i].token, text |-> "</span?"]],
                  LAMBDA n : n.class = "eof-in-tag")

SetInnerHTML(tokens) == BuildFragment(tokens, <<>>, <<>>)

NoResultsNode == [tag |-> "span", class |-> "message", text |-> "No results found"]

IsCard(node) == node.tag = "div" /\ node.class = "file bordered"

\* createFileElement: the card for one record
createFileElement(title, type, description, imgSource) ==
    LET thumbnail == IF Truthy(imgSource) THEN imgSource ELSE ThumbnailFor(type)
    IN  [tag |-> "div", class |-> "file bordered",
         src |-> TemplateText(thumbnail),
         title |-> TemplateText(title),
         description |-> TemplateText(description)]

RECURSIVE AppendCards_Prepend(_, _)
\* variant: every card is inserted before the cards already there
AppendCards_Prepend(children, entries) ==
    IF entries = <<>> THEN children
    ELSE LET entry == Head(entries)
             fileDiv == createFileElement(entry.title, entry.type, entry.description, Undefined)
         IN  AppendCards_Prepend(<<fileDiv>> \o children, Tail(entries))

RECURSIVE AppendCards(_, _)
\* the for-of loop of renderMediaEntries
AppendCards(children, entries) ==
    IF entries = <<>> THEN children
    ELSE LET entry == Head(entries)
             fileDiv == createFileElement(entry.title, entry.type, entry.description, Undefined)
         IN  AppendCards(Append(children, fileDiv), Tail(entries))

\* variant: the region is cleared before the length of `entries` is read
renderMediaEntries_ClearFirst(entries, children) ==
    IF entries.js = "undefined"
    THEN [browser |-> SetInnerHTML(<<>>), rejected |-> TRUE]
    ELSE IF Len(entries.items) > 0
         THEN [browser |-> AppendCards(SetInnerHTML(<<>>), entries.items),
               rejected |-> FALSE]
         ELSE [browser |-> SetInnerHTML(NoResultsHTML), rejected |-> FALSE]

\* variant: the cards are appended without clearing the region first
renderMediaEntries_NoClear(entries, children) ==
    IF entries.js = "undefined"
    THEN [browser |-> children, rejected |-> TRUE]
    ELSE IF Len(entries.items) > 0
         THEN [browser |-> AppendCards(children, entries.items), rejected |-> FALSE]
         ELSE [browser |-> SetInnerHTML(NoResultsHTML), rejected |-> FALSE]

\* renderMediaEntries(entries) applied to the current children of `browser`.
\* Reading `.length` of undefined throws inside the async function, so its
\* promise rejects and the region is left as it was.
renderMediaEntries(entries, children) ==
    IF entries.js = "undefined"
    THEN [browser |-> children, rejected |-> TRUE]
    ELSE IF Len(entries.items) > 0
         THEN [browser |-> AppendCards(SetInnerHTML(<<>>), entries.items),
               rejected |-> FALSE]
         ELSE [browser |-> SetInnerHTML(NoResultsHTML), rejected |-> FALSE]

(***************************************************************************)
(* The view toggles, applied to the record `dom` of the styled elements.   *)
(***************************************************************************)
\* variant: the label written in advanced mode is not the one the click
\* listener compares with
toggleSearchMode_LabelTypo(mode, d) ==
    IF mode = "simple"
    THEN [d EXCEPT !.searchModeBtn = "Advanced Search",
                   !.searchFormSimple = "flex",
                   !.searchFormAdvanced = "none"]
    ELSE IF mode = "advanced"
         THEN [d EXCEPT !.searchModeBtn = "Simple search",
                        !.searchFormSimple = "none",
                        !.searchFormAdvanced = "flex"]
         ELSE d

\* variant: advanced mode shows its form without hiding the simple one
toggleSearchMode_BothShown(mode, d) ==
    IF mode = "simple"
    THEN [d EXCEPT !.searchModeBtn = "Advanced Search",
                   !.searchFormSimple = "flex",
                   !.searchFormAdvanced = "none"]
    ELSE IF mode = "advanced"
         THEN [d EXCEPT !.searchModeBtn = "Simple Search",
                        !.searchFormAdvanced = "flex"]
         ELSE d

toggleSearchMode(mode, d) ==
    IF mode = "simple"
    THEN [d EXCEPT !.searchModeBtn = "Advanced Search",
                   !.searchFormSimple = "flex",
                   !.searchFormAdvanced = "none"]
    ELSE IF mode = "advanced"
         THEN [d EXCEPT !.searchModeBtn = "Simple Search",
                        !.searchFormSimple = "none",
                        !.searchFormAdvanced = "flex"]
         ELSE d

\* variant: leaving the new-entry view also puts the search menu back to simple
toggleNewEntryView_ResetsSearch(entry, d) ==
    IF entry
    THEN [d EXCEPT !.bodyOverflow = "hidden", !.newEntryView = "flex"]
    ELSE toggleSearchMode("simple",
                          [d EXCEPT !.bodyOverflow = "auto", !.newEntryView = "none"])

\* variant: leaving the new-entry view does not give scrolling back
toggleNewEntryView_KeepsScrollLock(entry, d) ==
    IF entry
    THEN [d EXCEPT !.bodyOverflow = "hidden", !.newEntryView = "flex"]
    ELSE [d EXCEPT !.newEntryView = "none"]

toggleNewEntryView(entry, d) ==
    IF entry
    THEN [d EXCEPT !.bodyOverflow = "hidden", !.newEntryView = "flex"]
    ELSE [d EXCEPT !.bodyOverflow = "auto", !.newEntryView = "none"]

(***************************************************************************)
(* Forms.                                                                  *)
(***************************************************************************)
EmptyEntryFields == [title |-> "", type |-> ""]

NewEntryInputs == {EmptyEntryFields, [title |-> "Foo", type |-> "book"]}

SearchInputs == {[query |-> ""], [query |-> "dune"]}

\* new FormData(form).entries(): the name/value pairs in field order
FormDataEntries(fields, names) == [i \in 1..Len(names) |-> <<names[i], fields[names[i]]>>]

\* Object.fromEntries: the mapping of each name to its value
ObjectFromEntries(pairs) ==
    [n \in {pairs[i][1] : i \in 1..Len(pairs)} |->
        LET last == CHOOSE i \in 1..Len(pairs) :
                        /\ pairs[i][1] = n
                        /\ \A j \in 1..Len(pairs) : pairs[j][1] = n => j <= i
        IN  pairs[last][2]]

\* HTMLFormElement.reset(): every field back to its initial, empty value
ResetForm(fields) == [n \in DOMAIN fields |-> ""]

NoBody == [none |-> ""]

(***************************************************************************)
(* State.                                                                  *)
(***************************************************************************)
VARIABLES
    phase,          \* "script": listeners attached, setup lines not yet run;
                    \* "ready": the script has run; "unloaded": the document
                    \* was left by a default form submission
    dom,            \* label of the mode button and the style of the toggled elements
    browser,        \* children of the display region
    newEntryForm,   \* field values of the new-entry form
    loadFired,      \* the window load event has been dispatched
    requests,       \* network operations in flight
    nextId,         \* issue number of the next request
    maxResolved,    \* largest issue number whose response was parsed so far
    unhandled,      \* promises that rejected with nobody to catch them
    lastEvent       \* the last step of a network operation: a request sent,
                    \* answered or settled (clicks and typing leave it)

vars == <<phase, dom, browser, newEntryForm, loadFired,
          requests, nextId, maxResolved, unhandled, lastEvent>>

\* name of the segment, the operation and issue number of its request, the
\* body it sent and the array it parsed
Event(name, op, id, body, result) ==
    [name |-> name, op |-> op, id |-> id, body |-> body, result |-> result]

\* what the markup may set before the script's setup lines run
MarkupLabels == {"Advanced Search", "Simple Search", ""}
MarkupDisplays == {"", "none"}

Init ==
    /\ phase = "script"
    /\ dom \in [searchModeBtn : MarkupLabels,
                searchFormSimple : MarkupDisplays,
                searchFormAdvanced : {""},
                newEntryView : MarkupDisplays,
                bodyOverflow : {""}]
    /\ browser = <<>>
    /\ newEntryForm = EmptyEntryFields
    /\ loadFired = FALSE
    /\ requests = {}
    /\ nextId = 1
    /\ maxResolved = 0
    /\ unhandled = {}
    /\ lastEvent = Event("none", "", 0, NoBody, <<>>)

(***************************************************************************)
(* Initial page setup: the last two statements of the script.              *)
(***************************************************************************)
\* variant: the script relies on what the markup shows
Startup_MarkupDefaults ==
    /\ phase = "script"
    /\ phase' = "ready"
    /\ lastEvent' = Event("startup", "", 0, NoBody, <<>>)
    /\ UNCHANGED <<dom, browser, newEntryForm, loadFired, requests,
                   nextId, maxResolved, unhandled>>

Startup ==
    /\ phase = "script"
    /\ phase' = "ready"
    /\ dom' = toggleNewEntryView(FALSE, toggleSearchMode("simple", dom))
    /\ lastEvent' = Event("startup", "", 0, NoBody, <<>>)
    /\ UNCHANGED <<browser, newEntryForm, loadFired, requests,
                   nextId, maxResolved, unhandled>>

(***************************************************************************)
(* Click listeners.                                                        *)
(***************************************************************************)
\* the listener of the search-mode button: the label tells the mode to go to
searchModeBtnClick(d) ==
    IF d.searchModeBtn = "Simple Search"
    THEN toggleSearchMode("simple", d)
    ELSE IF d.searchModeBtn = "Advanced Search"
         THEN toggleSearchMode("advanced", d)
         ELSE d

ClickSearchMode ==
    /\ phase = "ready"
    /\ dom' = searchModeBtnClick(dom)
    /\ UNCHANGED <<phase, browser, newEntryForm, loadFired,
                   requests, nextId, maxResolved, unhandled, lastEvent>>

ClickNewEntryView ==
    /\ phase = "ready"
    /\ dom' = toggleNewEntryView(TRUE, dom)
    /\ UNCHANGED <<phase, browser, newEntryForm, loadFired,
                   requests, nextId, maxResolved, unhandled, lastEvent>>

ClickNewEntryExit ==
    /\ phase = "ready"
    /\ dom.newEntryView = "flex"
    /\ dom' = toggleNewEntryView(FALSE, dom)
    /\ UNCHANGED <<phase, browser, newEntryForm, loadFired,
                   requests, nextId, maxResolved, unhandled, lastEvent>>

(***************************************************************************)
(* The user fills in the new-entry form.                                     *)
(***************************************************************************)
InputNewEntry(v) ==
    /\ phase = "ready"
    /\ dom.newEntryView = "flex"
    /\ v # newEntryForm
    /\ newEntryForm' = v
    /\ UNCHANGED <<phase, dom, browser, loadFired, requests,
                   nextId, maxResolved, unhandled, lastEvent>>

(***************************************************************************)
(* Network operations.                                                     *)
(***************************************************************************)
\* a request in flight: who issued it and which promise the listener awaits;
\* its body is recorded with the event that sent it
Request(id, op, method, path) ==
    [id |-> id, op |-> op, method |-> method, path |-> path, stage |-> "fetch"]

\* what the browser does with a submit event once its listeners have run:
\* nothing more when a listener called preventDefault, otherwise the form's
\* default submission, which leaves the document
AfterSubmit(defaultPrevented) == IF defaultPrevented THEN "ready" ELSE "unloaded"

\* window load listener up to the await in getRecentMediaEntries
WindowLoad ==
    /\ phase = "ready"
    /\ ~loadFired
    /\ nextId <= MaxRequests
    /\ loadFired' = TRUE
    /\ requests' = requests \cup {Request(nextId, "load", "GET", "/api/recent")}
    /\ nextId' = nextId + 1
    /\ lastEvent' = Event("load", "load", nextId, NoBody, <<>>)
    /\ UNCHANGED <<phase, dom, browser, newEntryForm,
                   maxResolved, unhandled>>

\* searchFormSimple submit listener up to the await of fetch; `fields` are
\* the values the user has typed into the submitted form (e.target)
SubmitSearchSimple(fields) ==
    /\ phase = "ready"
    /\ dom.searchFormSimple = "flex"
    /\ nextId <= MaxRequests
    /\ LET data == FormDataEntries(fields, <<"query">>)
           dataJSON == ObjectFromEntries(data)
       IN  /\ requests' = requests \cup
                  {Request(nextId, "search", "POST", "/api/general-search")}
           /\ lastEvent' = Event("submit search-form-simple", "search", nextId,
                                 dataJSON, <<>>)
    /\ phase' = AfterSubmit(TRUE)
    /\ nextId' = nextId + 1
    /\ UNCHANGED <<dom, browser, newEntryForm, loadFired,
                   maxResolved, unhandled>>

\* searchFormAdvanced has no submit listener: nothing prevents the default
SubmitSearchAdvanced ==
    /\ phase = "ready"
    /\ dom.searchFormAdvanced = "flex"
    /\ phase' = AfterSubmit(FALSE)
    /\ lastEvent' = Event("submit search-form-advanced", "", 0, NoBody, <<>>)
    /\ UNCHANGED <<dom, browser, newEntryForm, loadFired,
                   requests, nextId, maxResolved, unhandled>>

\* the body the new-entry listener sends: the FormData is taken from the
\* form before reset() empties it
\* variant: the form is reset before its fields are read
NewEntryPayload_ResetFirst(fields) ==
    LET afterReset == ResetForm(fields)
        data == FormDataEntries(afterReset, <<"title", "type">>)
    IN  [form |-> afterReset, dataJSON |-> ObjectFromEntries(data)]

NewEntryPayload(fields) ==
    LET data == FormDataEntries(fields, <<"title", "type">>)
        afterReset == ResetForm(fields)
    IN  [form |-> afterReset, dataJSON |-> ObjectFromEntries(data)]

\* newEntryForm submit listener up to the await of fetch
SubmitNewEntry ==
    /\ phase = "ready"
    /\ dom.newEntryView = "flex"
    /\ nextId <= MaxRequests
    /\ LET sent == NewEntryPayload(newEntryForm)
       IN  /\ newEntryForm' = sent.form
           /\ requests' = requests \cup {Request(nextId, "new", "POST", "/api/new")}
           /\ lastEvent' = Event("submit new-entry-form", "new", nextId,
                                 sent.dataJSON, <<>>)
    /\ phase' = AfterSubmit(TRUE)
    /\ nextId' = nextId + 1
    /\ UNCHANGED <<dom, browser, loadFired, maxResolved, unhandled>>

(***************************************************************************)
(* Continuations of the listeners once the awaited call has settled.       *)
(* `ok` tells whether fetch and response.json() both fulfilled; `items` is *)
(* the parsed array.                                                       *)
(***************************************************************************)
\* who is left with the rejection of a promise of renderMediaEntries: the
\* calling listener when it awaits the promise, nobody otherwise
Rejections(awaited, rejected, listener) ==
    IF ~rejected THEN {}
    ELSE IF awaited THEN {listener} ELSE {"renderMediaEntries"}

\* variant: the load listener catches the failure and renders an empty list
LoadListenerResume_CatchAndRender(ok, items, children) ==
    LET r == renderMediaEntries(JsArray(IF ok THEN items ELSE <<>>), children)
    IN  [browser |-> r.browser,
         unhandled |-> IF ok THEN {} ELSE {"load listener"}]

\* load listener: getRecentMediaEntries has no try/catch, so a failure
\* rejects the listener's promise before renderMediaEntries is called
LoadListenerResume(ok, items, children) ==
    IF ok
    THEN LET r == renderMediaEntries(JsArray(items), children)
         IN  [browser |-> r.browser,
              unhandled |-> Rejections(TRUE, r.rejected, "load listener")]
    ELSE [browser |-> children, unhandled |-> {"load listener"}]

\* the part of both submit listeners after the try/catch: `result` is
\* undefined when the try block threw; the promise of renderMediaEntries
\* is not awaited
RenderResult(ok, items, children, listener) ==
    LET result == IF ok THEN JsArray(items) ELSE JsUndefined
        r == renderMediaEntries(result, children)
    IN  [browser |-> r.browser,
         unhandled |-> Rejections(FALSE, r.rejected, listener)]

SearchListenerResume(ok, items, children) ==
    RenderResult(ok, items, children, "search listener")

\* new-entry listener: render, then close the overlay
\* variant: the new-entry view is left only when the request succeeded
NewEntryListenerResume_CloseOnSuccess(ok, items, children, d) ==
    LET r == RenderResult(ok, items, children, "new-entry listener")
    IN  [browser |-> r.browser, unhandled |-> r.unhandled,
         dom |-> IF ok THEN toggleNewEntryView(FALSE, d) ELSE d]

NewEntryListenerResume(ok, items, children, d) ==
    LET r == RenderResult(ok, items, children, "new-entry listener")
    IN  [browser |-> r.browser, unhandled |-> r.unhandled,
         dom |-> toggleNewEntryView(FALSE, d)]

\* variant: a response older than one already shown is dropped
Settle_DiscardStale(r, ok, items, name) ==
    /\ phase = "ready"
    /\ r \in requests
    /\ requests' = requests \ {r}
    /\ maxResolved' = IF ok /\ r.id > maxResolved THEN r.id ELSE maxResolved
    /\ lastEvent' = Event(name, r.op, r.id, NoBody, items)
    /\ IF r.id < maxResolved
       THEN UNCHANGED <<browser, unhandled, dom>>
       ELSE
       CASE r.op = "load" ->
              LET s == LoadListenerResume(ok, items, browser)
              IN  /\ browser' = s.browser
                  /\ unhandled' = unhandled \cup s.unhandled
                  /\ dom' = dom
         [] r.op = "search" ->
              LET s == SearchListenerResume(ok, items, browser)
              IN  /\ browser' = s.browser
                  /\ unhandled' = unhandled \cup s.unhandled
                  /\ dom' = dom
         [] r.op = "new" ->
              LET s == NewEntryListenerResume(ok, items, browser, dom)
              IN  /\ browser' = s.browser
                  /\ unhandled' = unhandled \cup s.unhandled
                  /\ dom' = s.dom
    /\ UNCHANGED <<phase, newEntryForm, loadFired, nextId>>

\* a settled request resumes the listener that issued it
Settle(r, ok, items, name) ==
    /\ phase = "ready"
    /\ r \in requests
    /\ requests' = requests \ {r}
    /\ maxResolved' = IF ok /\ r.id > maxResolved THEN r.id ELSE maxResolved
    /\ lastEvent' = Event(name, r.op, r.id, NoBody, items)
    /\ CASE r.op = "load" ->
              LET s == LoadListenerResume(ok, items, browser)
              IN  /\ browser' = s.browser
                  /\ unhandled' = unhandled \cup s.unhandled
                  /\ dom' = dom
         [] r.op = "search" ->
              LET s == SearchListenerResume(ok, items, browser)
              IN  /\ browser' = s.browser
                  /\ unhandled' = unhandled \cup s.unhandled
                  /\ dom' = dom
         [] r.op = "new" ->
              LET s == NewEntryListenerResume(ok, items, browser, dom)
              IN  /\ browser' = s.browser
                  /\ unhandled' = unhandled \cup s.unhandled
                  /\ dom' = s.dom
    /\ UNCHANGED <<phase, newEntryForm, loadFired, nextId>>

\* fetch fulfils: the listener goes on to await response.json()
FetchFulfilled(r) ==
    /\ phase = "ready"
    /\ r \in requests
    /\ r.stage = "fetch"
    /\ requests' = (requests \ {r}) \cup {[r EXCEPT !.stage = "json"]}
    /\ lastEvent' = Event("fetch fulfilled", r.op, r.id, NoBody, <<>>)
    /\ UNCHANGED <<phase, dom, browser, newEntryForm, loadFired,
                   nextId, maxResolved, unhandled>>

\* transport failure: fetch rejects
FetchRejected(r) ==
    /\ r.stage = "fetch"
    /\ Settle(r, FALSE, <<>>, "fetch rejected")

\* parse failure: response.json() rejects
JsonRejected(r) ==
    /\ r.stage = "json"
    /\ Settle(r, FALSE, <<>>, "json rejected")

\* the body parses to an array of records
JsonFulfilled(r, items) ==
    /\ r.stage = "json"
    /\ Settle(r, TRUE, items, "json fulfilled")

Next ==
    \/ Startup
    \/ WindowLoad
    \/ ClickSearchMode
    \/ ClickNewEntryView
    \/ ClickNewEntryExit
    \/ \E v \in NewEntryInputs : InputNewEntry(v)
    \/ \E fields \in SearchInputs : SubmitSearchSimple(fields)
    \/ SubmitSearchAdvanced
    \/ SubmitNewEntry
    \/ \E r \in requests : FetchFulfilled(r)
    \/ \E r \in requests : FetchRejected(r)
    \/ \E r \in requests : JsonRejected(r)
    \/ \E r \in requests : \E items \in ResultSets : JsonFulfilled(r, items)

Spec == Init /\ [][Next]_vars

TypeOK ==
    /\ phase \in {"script", "ready", "unloaded"}
    /\ nextId \in 1..(MaxRequests + 1)
    /\ maxResolved \in 0..MaxRequests
    /\ loadFired \in BOOLEAN
    /\ \A r \in requests : r.id \in 1..MaxRequests /\ r.stage \in {"fetch", "json"}
    /\ unhandled \subseteq {"load listener", "search listener", "new-entry listener",
                            "renderMediaEntries"}

(***************************************************************************)
(* Vocabulary of the properties.                                           *)
(***************************************************************************)
Rendered == lastEvent.name = "json fulfilled"

Failed == lastEvent.name \in {"fetch rejected", "json rejected"}

\* this step is a step of a network operation named in `names`
NetStep(names) == lastEvent' # lastEvent /\ lastEvent'.name \in names

FailureStep == NetStep({"fetch rejected", "json rejected"})

OverlayOpen(d) == d.newEntryView = "flex"

SearchView(d) == <<d.searchModeBtn, d.searchFormSimple, d.searchFormAdvanced>>

OverlayView(d) == <<d.newEntryView, d.bodyOverflow>>

\* node i of the region is the card of record i
CardOf(node, entry) ==
    /\ IsCard(node)
    /\ node.title = TemplateText(entry.title)
    /\ node.description = TemplateText(entry.description)

\* the display a response stands for: its cards in order, or the placeholder
RenderingOf(items) ==
    IF items = <<>> THEN <<NoResultsNode>>
    ELSE [i \in 1..Len(items) |->
             createFileElement(items[i].title, items[i].type, items[i].description,
                               Undefined)]

(***************************************************************************)
(* C1: after renderMediaEntries has been given a non-empty sequence, the   *)
(* region holds exactly one card per record, in the order of the input,    *)
(* and nothing of what was shown before.                                   *)
(***************************************************************************)
C1_OneCardPerRecordInOrder ==
    (Rendered /\ lastEvent.result # <<>>) =>
        /\ Len(browser) = Len(lastEvent.result)
        /\ \A i \in 1..Len(browser) : CardOf(browser[i], lastEvent.result[i])

\* two different records rendered over the display of an earlier response
C1_Witness ==
    /\ Rendered
    /\ lastEvent.result = <<Clip, Wire>>
    /\ lastEvent.id < maxResolved
    /\ Len(browser) = 2
    /\ browser[1].title = "Clip" /\ browser[2].title = "The Wire"

(***************************************************************************)
(* C2: after renderMediaEntries has been given the empty sequence, the     *)
(* region holds the single "No results found" placeholder and no card.     *)
(***************************************************************************)
C2_EmptyShowsPlaceholder ==
    (Rendered /\ lastEvent.result = <<>>) =>
        /\ browser = <<NoResultsNode>>
        /\ \A i \in 1..Len(browser) : ~IsCard(browser[i])

\* an empty response rendered after another response had been rendered
C2_Witness ==
    /\ Rendered
    /\ lastEvent.result = <<>>
    /\ lastEvent.id < maxResolved
    /\ browser = <<NoResultsNode>>

(***************************************************************************)
(* C3: the card of a record uses the record's explicit thumbnail when it   *)
(* has one, and the default icon of its type only otherwise.               *)
(***************************************************************************)
C3_ExplicitThumbnailUsed ==
    Rendered =>
        \A i \in 1..Len(lastEvent.result) :
            LET entry == lastEvent.result[i]
            IN  browser[i].src = IF entry.thumbnail # Undefined
                                 THEN entry.thumbnail
                                 ELSE TemplateText(ThumbnailFor(entry.type))

(***************************************************************************)
(* C4: a submission of either search form is intercepted (the document is  *)
(* not left) and issues a POST /api/general-search that carries the fields *)
(* of the form.                                                            *)
(***************************************************************************)
C4_BothSearchFormsHandled ==
    lastEvent.name \in {"submit search-form-simple", "submit search-form-advanced"} =>
        /\ phase = "ready"
        /\ lastEvent.body \in SearchInputs
        /\ \E r \in requests :
              /\ r.id = lastEvent.id
              /\ r.method = "POST"
              /\ r.path = "/api/general-search"

(***************************************************************************)
(* C5: the overlay goes from open to closed only on a click of the exit    *)
(* button or on a new-entry submission whose response was received and     *)
(* parsed; a failed submission leaves it open.                             *)
(***************************************************************************)
C5_ClosedOnlyByExitOrSuccess ==
    [][(phase = "ready" /\ OverlayOpen(dom) /\ ~OverlayOpen(dom')) =>
          \/ ClickNewEntryExit
          \/ NetStep({"json fulfilled"}) /\ lastEvent'.op = "new"]_vars

(***************************************************************************)
(* C6: a failed search or new-entry request does not reject the listener   *)
(* that issued it, leaves the region unchanged or showing the placeholder, *)
(* leaves the page alive, and touches nothing but what the listener        *)
(* touches on success.                                                     *)
(***************************************************************************)
C6_SubmitFailureContained ==
    [][(FailureStep /\ lastEvent'.op \in {"search", "new"}) =>
          /\ unhandled' \ unhandled \subseteq {"renderMediaEntries"}
          /\ browser' = browser \/ browser' = <<NoResultsNode>>
          /\ phase' = "ready"
          /\ SearchView(dom') = SearchView(dom)
          /\ newEntryForm' = newEntryForm]_vars

\* after a failed submission a later submission was sent, answered and shown
C6_Witness ==
    /\ Rendered
    /\ lastEvent.op \in {"search", "new"}
    /\ "renderMediaEntries" \in unhandled
    /\ browser = RenderingOf(lastEvent.result)

C8_LastResolvedWins ==
    Rendered => browser = RenderingOf(lastEvent.result)

\* the response of an earlier request is shown after that of a later one
C8_Witness ==
    /\ Rendered
    /\ lastEvent.id < maxResolved
    /\ lastEvent.result = <<Wire>>
    /\ browser = RenderingOf(<<Wire>>)

(***************************************************************************)
(* C9: a new-entry submission empties the form at once and leaves the      *)
(* overlay open, and the listener closes the overlay only in the step in   *)
(* which it has rendered the response.                                     *)
(***************************************************************************)
C9_ResetThenRenderThenClose ==
    [][/\ NetStep({"submit new-entry-form"}) =>
             /\ newEntryForm' = EmptyEntryFields
             /\ OverlayView(dom') = OverlayView(dom)
             /\ browser' = browser
       /\ (lastEvent' # lastEvent /\ lastEvent'.op = "new"
              /\ OverlayOpen(dom) /\ ~OverlayOpen(dom')) =>
             /\ lastEvent'.name = "json fulfilled"
             /\ browser' = RenderingOf(lastEvent'.result)]_vars

(***************************************************************************)
(* C10: a click on the search-mode button leaves the overlay and the       *)
(* scroll lock as they are; opening or closing the overlay (by its two     *)
(* buttons or by the end of a new-entry submission) leaves the search menu *)
(* as it is; the search menu changes on a click on its button only.        *)
(***************************************************************************)
C10_TogglesIndependent ==
    [][phase = "ready" =>
          /\ ClickSearchMode => OverlayView(dom') = OverlayView(dom)
          /\ (\/ ClickNewEntryView
              \/ ClickNewEntryExit
              \/ lastEvent' # lastEvent /\ lastEvent'.op = "new") =>
                SearchView(dom') = SearchView(dom)
          /\ SearchView(dom') # SearchView(dom) => ClickSearchMode]_vars

\* the overlay was closed by a finished submission while the menu is in
\* advanced mode
C10_Witness ==
    /\ lastEvent.op = "new"
    /\ lastEvent.name \in {"json fulfilled", "fetch rejected", "json rejected"}
    /\ ~OverlayOpen(dom)
    /\ dom.searchModeBtn = "Simple Search"
    /\ dom.searchFormAdvanced = "flex"
    /\ dom.searchFormSimple = "none"

(***************************************************************************)
(* C11: a click on the search-mode button always changes the mode, and a   *)
(* second click brings back exactly the label and the form displays that   *)
(* were there before the first.                                            *)
(***************************************************************************)
C11_ToggleIsTwoCycle ==
    [][ClickSearchMode =>
          /\ SearchView(dom') # SearchView(dom)
          /\ dom'.searchFormSimple # dom.searchFormSimple
          /\ dom'.searchFormAdvanced # dom.searchFormAdvanced
          /\ searchModeBtnClick(dom') = dom]_vars

\* advanced mode, entered by a click while a request was in flight
C11_Witness ==
    /\ phase = "ready"
    /\ requests # {}
    /\ SearchView(dom) = <<"Simple Search", "none", "flex">>

(***************************************************************************)
(* C12: rendering the sequence that was rendered last once more leaves     *)
(* the region as it is: no card is duplicated or accumulated.              *)
(***************************************************************************)
C12_RenderIdempotent ==
    Rendered =>
        LET again == renderMediaEntries(JsArray(lastEvent.result), browser)
        IN  /\ again.browser = browser
            /\ Len(again.browser) = IF lastEvent.result = <<>> THEN 1
                                    ELSE Len(lastEvent.result)

\* two records rendered over what an earlier response had put there
C12_Witness ==
    /\ Rendered
    /\ lastEvent.result = <<Wire, Clip>>
    /\ lastEvent.id < maxResolved
    /\ Len(browser) = 2

(***************************************************************************)
(* C13: once the script has run, the overlay is shown exactly when page    *)
(* scrolling is suppressed: shown with overflow hidden, or hidden with     *)
(* overflow auto.                                                          *)
(***************************************************************************)
C13_OverlayIffScrollLock ==
    phase # "script" =>
        \/ dom.newEntryView = "flex" /\ dom.bodyOverflow = "hidden"
        \/ dom.newEntryView = "none" /\ dom.bodyOverflow = "auto"

\* the overlay is open, scrolling locked, with a submission in flight
C13_Witness ==
    /\ phase = "ready"
    /\ OverlayView(dom) = <<"flex", "hidden">>
    /\ \E r \in requests : r.op = "new"

(***************************************************************************)
(* C14: the only step taken while the script is still running is its last  *)
(* two calls, and whatever the markup showed they leave simple mode (simple *)
(* form shown, advanced form hidden, label "Advanced Search") and the      *)
(* overlay closed with scrolling enabled; no request has been issued and   *)
(* no event handled before.                                                *)
(***************************************************************************)
StartupView ==
    [searchModeBtn |-> "Advanced Search", searchFormSimple |-> "flex",
     searchFormAdvanced |-> "none", newEntryView |-> "none",
     bodyOverflow |-> "auto"]

C14_StartupSetsViewState ==
    [][phase = "script" =>
          /\ lastEvent.name = "none" /\ requests = {} /\ ~loadFired
          /\ phase' = "ready"
          /\ dom' = StartupView
          /\ requests' = {} /\ browser' = browser]_vars

\* the script has just finished and nothing else has been handled
C14_Witness ==
    /\ phase = "ready"
    /\ lastEvent.name = "startup"
    /\ ~loadFired
    /\ nextId = 1
    /\ dom = StartupView

(***************************************************************************)
(* C15 as claimed: the card of every rendered record whose type the schema *)
(* permits and that has no thumbnail of its own shows a default thumbnail  *)
(* defined in fileTypeThumbnailMap.                                        *)
(***************************************************************************)
C15_SchemaTypeHasDefaultThumbnail ==
    Rendered =>
        \A i \in 1..Len(lastEvent.result) :
            LET entry == lastEvent.result[i]
            IN  (entry.type \in SchemaTypes /\ entry.thumbnail = Undefined) =>
                    /\ entry.type \in DOMAIN fileTypeThumbnailMap
                    /\ browser[i].src = fileTypeThumbnailMap[entry.type]

(***************************************************************************)
(* C16: once the script has run, exactly one of the two search forms is    *)
(* shown and the label of the button names the other mode, so the click    *)
(* listener always takes one of its two branches.                          *)
(***************************************************************************)
C16_OneFormAndLabelOfOtherMode ==
    phase # "script" =>
        \/ SearchView(dom) = <<"Advanced Search", "flex", "none">>
        \/ SearchView(dom) = <<"Simple Search", "none", "flex">>

\* advanced mode under the open overlay
C16_Witness ==
    /\ phase = "ready"
    /\ SearchView(dom) = <<"Simple Search", "none", "flex">>
    /\ OverlayOpen(dom)

(***************************************************************************)
(* C17: the region changes only in the step in which a response has been   *)
(* received and parsed; issuing a request, waiting for it, receiving the   *)
(* response head, or a failure never change it.                            *)
(***************************************************************************)
C17_DisplayChangesOnlyOnParsedResponse ==
    [][browser' # browser => NetStep({"json fulfilled"})]_vars

\* a response head has arrived, its body is not parsed yet, and the region
\* still shows what an earlier response put there
C17_Witness ==
    /\ lastEvent.name = "fetch fulfilled"
    /\ \E r \in requests : r.id = lastEvent.id /\ r.stage = "json"
    /\ maxResolved > 0
    /\ browser = RenderingOf(<<Clip>>)

(***************************************************************************)
(* C18: the body of the new-entry request is the mapping of the fields as  *)
(* they were when the form was submitted, and the form is empty after the  *)
(* same step.                                                              *)
(***************************************************************************)
C18_BodyCapturedBeforeReset ==
    [][NetStep({"submit new-entry-form"}) =>
          /\ lastEvent'.body = [title |-> newEntryForm.title,
                                type |-> newEntryForm.type]
          /\ newEntryForm' = EmptyEntryFields]_vars

\* a filled form was submitted: the body has the values, the form is empty
C18_Witness ==
    /\ lastEvent.name = "submit new-entry-form"
    /\ lastEvent.body = [title |-> "Foo", type |-> "book"]
    /\ newEntryForm = EmptyEntryFields

(***************************************************************************)
(* C19: in the step in which a new-entry submission settles, by a parsed   *)
(* response or by a failure, the overlay is closed and scrolling restored, *)
(* whatever the overlay showed before that step.                           *)
(***************************************************************************)
C19_CompletionClosesOverlay ==
    [][(NetStep({"fetch rejected", "json rejected", "json fulfilled"})
          /\ lastEvent'.op = "new") =>
          OverlayView(dom') = <<"none", "auto">>]_vars

\* a failed submission has just closed the overlay over a form the user
\* had filled again after submitting
C19_Witness ==
    /\ Failed
    /\ lastEvent.op = "new"
    /\ newEntryForm = [title |-> "Foo", type |-> "book"]
    /\ OverlayView(dom) = <<"none", "auto">>

====
